---- MODULE Spec2Model ----
(***************************************************************************)
(* EtcdClientGenerator (pkg/k3s/etcd_client_generator.go): resolution of   *)
(* an etcd client for the first available node and for the etcd leader,    *)
(* through the per-node etcd-proxy pods of the target cluster.             *)
(*                                                                         *)
(* Spec: one generator used by one caller at a time.  The pod listing, the *)
(* client creation and the membership query are calls to the outside       *)
(* world: their outcome is drawn afresh at every call.                     *)
(* SpecRace: findEtcdProxyPod run by several callers at the same time.     *)
(* SpecConv: the conversion round trips of bootstrap/api/v1beta1.          *)
(***************************************************************************)
EXTENDS Integers, Sequences, FiniteSets, TLC

\* ------------------------------------------------------------------ bounds
\* longest candidate list handed to a resolution call
MaxCands == 3
\* most pods one listing returns
MaxPods == 2
\* most members one membership query returns
MaxMembers == 2

\* ---------------------------------------------------------------- universe
Nodes == {"A", "B", "C"}

\* the etcd-proxy pod a node can run
PodUniverse == {[NodeName |-> n, Name |-> "pod-" \o n] : n \in Nodes}

MemberIDs == {1, 2}

MemberUniverse == {[ID |-> i, Name |-> n] : i \in MemberIDs, n \in Nodes}

SeqsUpTo(S, n) == UNION {[1..k -> S] : k \in 0..n}

\* the caller names distinct nodes
CandLists ==
    {c \in SeqsUpTo(Nodes, MaxCands) : \A x, y \in 1..Len(c) : x # y => c[x] # c[y]}

PodLists == SeqsUpTo(PodUniverse, MaxPods)

MemberLists == SeqsUpTo(MemberUniverse, MaxMembers)

\* ------------------------------------------------------------------ errors
\* An error value: its kind, the node, pod or message it names, its causes.
Err(kind, what, causes) == [kind |-> kind, what |-> what, causes |-> causes]

\* the nil error
NoErr == Err("nil", "", <<>>)

errEtcdNodeConnection == Err("conn", "", <<>>)

RECURSIVE NonNil(_)
NonNil(errs) ==
    IF errs = <<>> THEN <<>>
    ELSE IF Head(errs) = NoErr THEN NonNil(Tail(errs))
         ELSE <<Head(errs)>> \o NonNil(Tail(errs))

\* kerrors.NewAggregate: nil errors are dropped, and no error at all is nil
NewAggregate(errs) ==
    IF NonNil(errs) = <<>> THEN NoErr ELSE Err("agg", "", NonNil(errs))

\* errors.Wrap: wrapping nil is nil
Wrap(e, msg) == IF e = NoErr THEN NoErr ELSE Err("wrap", msg, <<e>>)

\* errors.Is: the error, or one it wraps or aggregates, is the target
RECURSIVE Is(_, _)
Is(e, target) ==
    \/ e = target
    \/ \E k \in 1..Len(e.causes) : Is(e.causes[k], target)

\* ------------------------------------------------------------------- state
VARIABLES
    etcdPodMap,   \* the generator's cached node -> pod map, NoMap when nil
    pc,           \* where the running resolution call stands
    nodeNames,    \* the candidate list of the running call
    fl,           \* forLeader's frame: loop index and recorded errors
    gl,           \* getLeaderClient's frame
    ff,           \* forFirstAvailableNode's frame
    dials,        \* every createClient call of the running call, in order
    result,       \* what the running call returned
    net,          \* the network calls the running call made, and its start map
    op,           \* the resolution operation the caller invoked
    restConfigOK, \* whether a clientset can be made from the generator's restConfig
    conv,         \* the conversion round trip under way (bootstrap/api/v1beta1)
    th            \* the findEtcdProxyPod frames of callers that run concurrently

vars == <<etcdPodMap, pc, nodeNames, fl, gl, ff, dials, result, net, op,
          restConfigOK, conv, th>>

NoMap == [nil |-> TRUE]

NoMember == [ID |-> 0, Name |-> ""]

FlInit == [i |-> 1, errs |-> <<>>]

\* reported: the nodes of the members the query returned under the leader's ID
GlInit == [nodeName |-> "", client |-> 0, deferred |-> 0, queried |-> FALSE,
           leaderID |-> 0, leaderMember |-> NoMember, reported |-> {},
           retClient |-> 0, retErr |-> NoErr]

FfInit == [names |-> <<>>, j |-> 1, errs |-> <<>>, podName |-> "", ret |-> "top"]

NetInit(m) == [lists |-> 0, empties |-> 0, listErrs |-> 0, queries |-> 0, map0 |-> m]

ResultInit == [client |-> 0, err |-> NoErr]

\* ------------------------------------------- API objects (bootstrap/api)
\* largest value of the content a fuzzed object carries besides its name
MaxOther == 3

ObjNames == {"", "cfg-a", "cfg-b"}

\* a v1beta1 KThreesConfig: its name, the server config's
\* DisableExternalCloudProvider, and the rest of its content
SpokeObjects ==
    [Name : ObjNames, DisableExternalCloudProvider : BOOLEAN, Other : 0..MaxOther]

\* a v1beta2 KThreesConfig: the same without DisableExternalCloudProvider
HubObjects == [Name : ObjNames, Other : 0..MaxOther]

\* &KThreesConfig{} of either version
ZeroSpoke == [Name |-> "", DisableExternalCloudProvider |-> FALSE, Other |-> 0]

ZeroHub == [Name |-> "", Other |-> 0]

\* KThreesServerConfigFuzzer: whatever was drawn, the removed field is false
KThreesServerConfigFuzzer(in) == [in EXCEPT !.DisableExternalCloudProvider = FALSE]

\* (r *KThreesConfig) ConvertTo(dstRaw): returns nil and leaves dstRaw alone
ConvertTo(r, dstRaw) == dstRaw

\* ConvertFrom(srcRaw) into c: the shape conversion, field by field; the
\* field v1beta2 has not keeps c's value
ConvertFrom(c, srcRaw) ==
    [c EXCEPT !.Name = srcRaw.Name, !.Other = srcRaw.Other]

ConvIdle == [dir |-> "none", step |-> 0, spoke |-> ZeroSpoke, hub |-> ZeroHub,
             spokeAfter |-> ZeroSpoke, hubAfter |-> ZeroHub]

\* ------------------------------------------------------ concurrent callers
\* most callers that run findEtcdProxyPod on one generator at the same time
MaxBuilders == 2

Builders == 1..MaxBuilders

\* a caller's frame of findEtcdProxyPod: its node name, the local etcdmap it
\* has filled, whether it has assigned c.etcdPodMap, and what it returned
ThIdle == [pc |-> "idle", nodeName |-> "", etcdmap |-> NoMap, wrote |-> FALSE,
           podName |-> "", err |-> "nil"]

\* NewEtcdClientGenerator: the pod map starts nil
Init ==
    /\ etcdPodMap = NoMap
    /\ pc = "idle"
    /\ nodeNames = <<>>
    /\ fl = FlInit
    /\ gl = GlInit
    /\ ff = FfInit
    /\ dials = <<>>
    /\ result = ResultInit
    /\ net = NetInit(NoMap)
    /\ op = "none"
    /\ restConfigOK \in BOOLEAN
    /\ conv = ConvIdle
    /\ th = [t \in Builders |-> ThIdle]

\* ----------------------------------------------------------------- helpers
RECURSIVE PodsToMap(_, _)
\* etcdmap[pod.Spec.NodeName] = pod.Name, over pods.Items in order
PodsToMap(items, m) ==
    IF items = <<>> THEN m
    ELSE PodsToMap(Tail(items),
                   [n \in DOMAIN m \cup {Head(items).NodeName} |->
                       IF n = Head(items).NodeName THEN Head(items).Name ELSE m[n]])

EmptyMap == [n \in {} |-> ""]

\* sets.Set[string] built from nodeNames
NodeSet(names) == {names[k] : k \in 1..Len(names)}

\* the first member whose ID is the reported leader ID, NoMember when none
RECURSIVE ScanLeader(_, _)
ScanLeader(members, leaderID) ==
    IF members = <<>> THEN NoMember
    ELSE IF Head(members).ID = leaderID THEN Head(members)
         ELSE ScanLeader(Tail(members), leaderID)

\* util.NodeNameFromMember
NodeNameFromMember(member) == member.Name

\* a listing counted in net
Listed(kind) ==
    [net EXCEPT !.lists = @ + 1,
                !.empties = IF kind = "empty" THEN @ + 1 ELSE @,
                !.listErrs = IF kind = "err" THEN @ + 1 ELSE @]

\* one createClient call: the endpoint, the candidate it was made for, the
\* step that asked for it, and the handle it returned
Dial(pod, node, for, ok) ==
    [pod |-> pod, node |-> node, for |-> for, ok |-> ok, open |-> ok, closes |-> 0]

\* a Close that does nothing
CloseHandleNoop(d, h) == d

\* client.Close() on handle h
CloseHandle(d, h) ==
    IF h \in 1..Len(d)
    THEN [d EXCEPT ![h].open = FALSE, ![h].closes = @ + 1]
    ELSE d

\* a record that keeps the last error only
RecordErrLast(errs, err) == <<err>>

\* errs = append(errs, err)
RecordErr(errs, err) == Append(errs, err)

\* a guard that lets the empty list through
EmptyArgNever(names) == FALSE

\* len(nodeNames) == 0
EmptyArg(names) == Len(names) = 0

\* a classification that takes every error for a connection problem
RetryableAny(err) == TRUE

\* errors.Is(err, errEtcdNodeConnection)
Retryable(err) == Is(err, errEtcdNodeConnection)

\* an error returned without the connection marker
NodeConnErrBare(err) == NewAggregate(<<err>>)

\* kerrors.NewAggregate([]error{err, errEtcdNodeConnection})
NodeConnErr(err) == NewAggregate(<<err, errEtcdNodeConnection>>)

\* a leader dial aimed at the node that was probed
LeaderTargetProbed(leaderMember, probed) == probed

\* the node getLeaderClient dials for the leader
LeaderTarget(leaderMember, probed) == NodeNameFromMember(leaderMember)

\* a membership check that lets every node name through
InClusterAny(allNodes, nodeName) == TRUE

\* allNodes.Has(nodeName)
InCluster(allNodes, nodeName) == nodeName \in allNodes

\* a deferred close that reads the client variable when the function returns
DeferTargetLate(g) == g.client

\* defer client.Close(): the receiver is the client held when defer ran
DeferTarget(g) == g.deferred

\* the nodes of the members that carry the reported leader ID
Reported(members, leaderID) ==
    {NodeNameFromMember(members[k]) :
        k \in {x \in 1..Len(members) : members[x].ID = leaderID}}

\* ---------------------------------------------------------------- forLeader
\* forLeader after getLeaderClient returned (cl, err)
FlAfter(cl, err) ==
    IF err # NoErr
    THEN IF Retryable(err)
         THEN /\ fl' = [fl EXCEPT !.errs = RecordErr(@, err), !.i = @ + 1]
              /\ pc' = "fl_loop"
              /\ result' = result
         ELSE /\ result' = [client |-> 0, err |-> err]
              /\ pc' = "done"
              /\ fl' = fl
    ELSE /\ result' = [client |-> cl, err |-> NoErr]
         /\ pc' = "done"
         /\ fl' = fl

\* forFirstAvailableNode returns (cl, err) to whoever called it
FfanReturn(cl, err) ==
    CASE ff.ret = "top" ->
            /\ result' = [client |-> cl, err |-> err]
            /\ pc' = "done"
            /\ UNCHANGED <<fl, gl>>
      [] ff.ret = "temp" ->
            IF err # NoErr
            THEN /\ FlAfter(0, NodeConnErr(err))
                 /\ gl' = gl
            ELSE /\ gl' = [gl EXCEPT !.client = cl, !.deferred = cl]
                 /\ pc' = "gl_members"
                 /\ UNCHANGED <<fl, result>>
      [] ff.ret = "leader" ->
            /\ gl' = [gl EXCEPT !.client = cl, !.retClient = cl, !.retErr = err]
            /\ pc' = "gl_defer"
            /\ UNCHANGED <<fl, result>>

\* a resolution call starts: the frames of the call before it are gone
StartCall(o, names) ==
    /\ pc = "idle"
    /\ op' = o
    /\ nodeNames' = names
    /\ dials' = <<>>
    /\ net' = NetInit(etcdPodMap)
    /\ gl' = GlInit
    /\ fl' = FlInit
    /\ UNCHANGED <<etcdPodMap, restConfigOK, conv, th>>

\* forFirstAvailableNode(ctx, nodeNames), called by the user of the generator
CallForFirstAvailableNode ==
    \E names \in CandLists :
        /\ StartCall("forFirstAvailableNode", names)
        /\ IF EmptyArg(names)
           THEN /\ result' = [client |-> 0, err |-> Err("invalid", "", <<>>)]
                /\ pc' = "done"
                /\ ff' = FfInit
           ELSE /\ result' = ResultInit
                /\ pc' = "ff_list"
                /\ ff' = [FfInit EXCEPT !.names = names]

\* forLeader(ctx, nodeNames)
CallForLeader ==
    \E names \in CandLists :
        /\ StartCall("forLeader", names)
        /\ ff' = FfInit
        /\ IF EmptyArg(names)
           THEN /\ result' = [client |-> 0, err |-> Err("invalid", "", <<>>)]
                /\ pc' = "done"
           ELSE /\ result' = ResultInit
                /\ pc' = "fl_loop"

\* forLeader's loop: getLeaderClient(ctx, nodeName, nodes) for the next
\* candidate, which first asks forFirstAvailableNode for a temporary client
FlProbe ==
    /\ pc = "fl_loop"
    /\ fl.i <= Len(nodeNames)
    /\ gl' = [GlInit EXCEPT !.nodeName = nodeNames[fl.i]]
    /\ ff' = [FfInit EXCEPT !.names = <<nodeNames[fl.i]>>, !.ret = "temp"]
    /\ pc' = "ff_list"
    /\ UNCHANGED <<etcdPodMap, nodeNames, fl, dials, result, net, op, restConfigOK, conv, th>>

\* forLeader's loop is over: the aggregate of the recorded errors
FlExhausted ==
    /\ pc = "fl_loop"
    /\ fl.i > Len(nodeNames)
    /\ result' = [client |-> 0,
                  err |-> Wrap(NewAggregate(fl.errs),
                               "could not establish a connection to the etcd leader")]
    /\ pc' = "done"
    /\ UNCHANGED <<etcdPodMap, nodeNames, fl, gl, ff, dials, net, op, restConfigOK, conv, th>>

\* ---------------------------------------------------- forFirstAvailableNode
\* the clientset and the pod listing at the head of forFirstAvailableNode;
\* the map built from the listing is not read again
FfanList ==
    /\ pc = "ff_list"
    /\ IF ~restConfigOK
       THEN /\ FfanReturn(0, Wrap(Err("clientset", "", <<>>),
                                  "unable to create client to target cluster"))
            /\ net' = net
       ELSE \/ /\ FfanReturn(0, Wrap(Err("list", "", <<>>),
                                     "unable to list etcd-proxy pods in target cluster"))
               /\ net' = Listed("err")
            \/ \E items \in PodLists :
                  /\ net' = Listed(IF items = <<>> THEN "empty" ELSE "some")
                  /\ pc' = "ff_loop"
                  /\ UNCHANGED <<fl, gl, result>>
    /\ UNCHANGED <<etcdPodMap, nodeNames, ff, dials, op, restConfigOK, conv, th>>

\* a loop that steps over the candidate after the failed one
FfanSkipTwo(err) ==
    /\ ff' = [ff EXCEPT !.errs = RecordErr(@, err), !.j = @ + 2]
    /\ pc' = "ff_loop"

\* a loop that records the error and tries the same candidate again
FfanSkipStay(err) ==
    /\ ff' = [ff EXCEPT !.errs = RecordErr(@, err)]
    /\ pc' = "ff_loop"

\* the candidate failed: the error is recorded and the loop goes on
FfanSkip(err) ==
    /\ ff' = [ff EXCEPT !.errs = RecordErr(@, err), !.j = @ + 1]
    /\ pc' = "ff_loop"

\* a lookup that takes a missing entry for the pod with the empty name
LookupUnchecked(m, name) ==
    /\ ff' = [ff EXCEPT !.podName = IF name \in DOMAIN m THEN m[name] ELSE ""]
    /\ pc' = "ff_create"

\* podName, exists := (*c.etcdPodMap)[nodeName]
Lookup(m, name) ==
    IF name \in DOMAIN m
    THEN /\ ff' = [ff EXCEPT !.podName = m[name]]
         /\ pc' = "ff_create"
    ELSE FfanSkip(Err("notfound", name, <<>>))

\* a test that lets a listing without pods through
NoPodsNever(items) == FALSE

\* len(pods.Items) == 0
NoPods(items) == Len(items) = 0

\* a test that takes the pod map for unbuilt whatever it holds
CacheNilAlways(m) == TRUE

\* c.etcdPodMap == nil
CacheNil(m) == m = NoMap

\* one turn of forFirstAvailableNode's loop up to createClient:
\* findEtcdProxyPod(ctx, name), which builds the pod map when it is nil
FfanFind ==
    /\ pc = "ff_loop"
    /\ ff.j <= Len(ff.names)
    /\ IF CacheNil(etcdPodMap)
       THEN \/ /\ ~restConfigOK
               /\ FfanSkip(Wrap(Err("clientset", "", <<>>),
                                "unable to create client to target cluster"))
               /\ UNCHANGED <<etcdPodMap, net>>
            \/ /\ restConfigOK
               /\ FfanSkip(Wrap(Err("list", "", <<>>),
                                "unable to list etcd-proxy pods in target cluster"))
               /\ net' = Listed("err")
               /\ UNCHANGED etcdPodMap
            \/ \E items \in PodLists :
                  /\ restConfigOK
                  /\ IF NoPods(items)
                     THEN /\ FfanSkip(Err("nopods", "", <<>>))
                          /\ net' = Listed("empty")
                          /\ UNCHANGED etcdPodMap
                     ELSE /\ etcdPodMap' = PodsToMap(items, EmptyMap)
                          /\ net' = Listed("some")
                          /\ Lookup(PodsToMap(items, EmptyMap), ff.names[ff.j])
       ELSE /\ Lookup(etcdPodMap, ff.names[ff.j])
            /\ UNCHANGED <<etcdPodMap, net>>
    /\ UNCHANGED <<nodeNames, fl, gl, dials, result, op, restConfigOK, conv, th>>

\* client, err := c.createClient(ctx, podName)
FfanCreate ==
    /\ pc = "ff_create"
    /\ \E ok \in BOOLEAN :
          /\ dials' = Append(dials, Dial(ff.podName, ff.names[ff.j], ff.ret, ok))
          /\ IF ok
             THEN /\ FfanReturn(Len(dials) + 1, NoErr)
                  /\ ff' = ff
             ELSE /\ FfanSkip(Err("dial", ff.podName, <<>>))
                  /\ UNCHANGED <<fl, gl, result>>
    /\ UNCHANGED <<etcdPodMap, nodeNames, net, op, restConfigOK, conv, th>>

\* forFirstAvailableNode's loop is over: the aggregate of the recorded errors
FfanExhausted ==
    /\ pc = "ff_loop"
    /\ ff.j > Len(ff.names)
    /\ FfanReturn(0, Wrap(NewAggregate(ff.errs),
                          "could not establish a connection to any etcd node"))
    /\ UNCHANGED <<etcdPodMap, nodeNames, ff, dials, net, op, restConfigOK, conv, th>>

\* ---------------------------------------------------------- getLeaderClient
\* client.Members(ctx), the scan for the leader, and what follows from it
GlMembers ==
    /\ pc = "gl_members"
    /\ net' = [net EXCEPT !.queries = @ + 1]
    /\ \/ /\ gl' = [gl EXCEPT !.retClient = 0,
                              !.retErr = NodeConnErr(Err("members", gl.nodeName, <<>>))]
          /\ pc' = "gl_defer"
          /\ ff' = ff
       \/ \E members \in MemberLists, leaderID \in MemberIDs :
             LET leaderMember == ScanLeader(members, leaderID)
                 got == [gl EXCEPT !.queried = TRUE, !.leaderID = leaderID,
                                   !.leaderMember = leaderMember,
                                   !.reported = Reported(members, leaderID)]
             IN  IF leaderMember # NoMember
                 THEN IF ~InCluster(NodeSet(nodeNames), NodeNameFromMember(leaderMember))
                      THEN /\ gl' = [got EXCEPT !.retClient = 0,
                                                !.retErr = Err("noleadernode",
                                                    NodeNameFromMember(leaderMember), <<>>)]
                           /\ pc' = "gl_defer"
                           /\ ff' = ff
                      ELSE /\ gl' = got
                           /\ ff' = [FfInit EXCEPT
                                       !.names = <<LeaderTarget(leaderMember, gl.nodeName)>>,
                                       !.ret = "leader"]
                           /\ pc' = "ff_list"
                 ELSE /\ gl' = [got EXCEPT !.retClient = 0,
                                           !.retErr = Err("nomember", "", <<>>)]
                      /\ pc' = "gl_defer"
                      /\ ff' = ff
    /\ UNCHANGED <<etcdPodMap, nodeNames, fl, dials, result, op, restConfigOK, conv, th>>

\* getLeaderClient returns: the deferred client.Close() runs on the temporary
\* client, and forLeader gets (client, err)
GlDefer ==
    /\ pc = "gl_defer"
    /\ dials' = CloseHandle(dials, DeferTarget(gl))
    /\ FlAfter(gl.retClient, gl.retErr)
    /\ UNCHANGED <<etcdPodMap, nodeNames, gl, ff, net, op, restConfigOK, conv, th>>

\* the caller takes what the call returned; the generator is kept
Return ==
    /\ pc = "done"
    /\ pc' = "idle"
    /\ op' = "none"
    /\ nodeNames' = <<>>
    /\ fl' = FlInit
    /\ gl' = GlInit
    /\ ff' = FfInit
    /\ dials' = <<>>
    /\ result' = ResultInit
    /\ net' = NetInit(etcdPodMap)
    /\ UNCHANGED <<etcdPodMap, restConfigOK, conv, th>>

Next ==
    \/ Return
    \/ CallForFirstAvailableNode
    \/ CallForLeader
    \/ FlProbe
    \/ FlExhausted
    \/ FfanList
    \/ FfanFind
    \/ FfanCreate
    \/ FfanExhausted
    \/ GlMembers
    \/ GlDefer

Spec == Init /\ [][Next]_vars

TypeOK ==
    /\ pc \in {"idle", "done", "fl_loop", "ff_list", "ff_loop", "ff_create",
               "gl_members", "gl_defer"}
    /\ nodeNames \in CandLists
    /\ op \in {"none", "forFirstAvailableNode", "forLeader"}

\* ------------------------------------------------- conversion round trips
\* the variables of the generator, which a conversion leaves alone
genVars == <<etcdPodMap, pc, nodeNames, fl, gl, ff, dials, result, net, op, restConfigOK>>

\* TestFuzzyConversion, spoke-hub-spoke: a fuzzed v1beta1 object
FuzzSpoke ==
    /\ conv.step \in {0, 3}
    /\ \E in \in SpokeObjects :
           conv' = [ConvIdle EXCEPT !.dir = "spoke", !.step = 1,
                                    !.spoke = KThreesServerConfigFuzzer(in)]
    /\ UNCHANGED <<genVars, th>>

\* TestFuzzyConversion, hub-spoke-hub: a fuzzed v1beta2 object
FuzzHub ==
    /\ conv.step \in {0, 3}
    /\ \E in \in HubObjects :
           conv' = [ConvIdle EXCEPT !.dir = "hub", !.step = 1, !.hub = in]
    /\ UNCHANGED <<genVars, th>>

\* the spoke's ConvertTo into a new hub object
DoConvertTo ==
    /\ \/ /\ conv.dir = "spoke" /\ conv.step = 1
          /\ conv' = [conv EXCEPT !.step = 2,
                                  !.hub = ConvertTo(conv.spoke, ZeroHub)]
       \/ /\ conv.dir = "hub" /\ conv.step = 2
          /\ conv' = [conv EXCEPT !.step = 3,
                                  !.hubAfter = ConvertTo(conv.spoke, ZeroHub)]
    /\ UNCHANGED <<genVars, th>>

\* ConvertFrom of the hub into a new spoke object
DoConvertFrom ==
    /\ \/ /\ conv.dir = "hub" /\ conv.step = 1
          /\ conv' = [conv EXCEPT !.step = 2,
                                  !.spoke = ConvertFrom(ZeroSpoke, conv.hub)]
       \/ /\ conv.dir = "spoke" /\ conv.step = 2
          /\ conv' = [conv EXCEPT !.step = 3,
                                  !.spokeAfter = ConvertFrom(ZeroSpoke, conv.hub)]
    /\ UNCHANGED <<genVars, th>>

ConvNext ==
    \/ FuzzSpoke
    \/ FuzzHub
    \/ DoConvertTo
    \/ DoConvertFrom

SpecConv == Init /\ [][ConvNext]_vars

\* ------------------------------------- findEtcdProxyPod, callers in parallel
\* what the concurrent callers leave alone: the frames of the sequential call
seqVars == <<pc, nodeNames, fl, gl, ff, dials, result, net, op, restConfigOK, conv>>

\* an assignment that keeps a map another caller has stored
CacheWriteOnce(cur, new) == IF cur = NoMap THEN new ELSE cur

\* c.etcdPodMap = &etcdmap
CacheWrite(cur, new) == new

\* a resolution call of caller t reaches findEtcdProxyPod(ctx, nodeName)
RaceCall(t) ==
    /\ th[t].pc = "idle"
    /\ \E n \in Nodes : th' = [th EXCEPT ![t] = [ThIdle EXCEPT !.pc = "check",
                                                              !.nodeName = n]]
    /\ UNCHANGED <<etcdPodMap, seqVars>>

\* if c.etcdPodMap == nil
RaceCheck(t) ==
    /\ th[t].pc = "check"
    /\ th' = [th EXCEPT ![t].pc = IF CacheNil(etcdPodMap) THEN "list" ELSE "lookup"]
    /\ UNCHANGED <<etcdPodMap, seqVars>>

\* the clientset, the listing and the local etcdmap filled from it
RaceList(t) ==
    /\ th[t].pc = "list"
    /\ IF ~restConfigOK
       THEN th' = [th EXCEPT ![t].pc = "done", ![t].err = "clientset"]
       ELSE \/ th' = [th EXCEPT ![t].pc = "done", ![t].err = "list"]
            \/ \E items \in PodLists :
                  IF NoPods(items)
                  THEN th' = [th EXCEPT ![t].pc = "done", ![t].err = "nopods"]
                  ELSE th' = [th EXCEPT ![t].pc = "write",
                                        ![t].etcdmap = PodsToMap(items, EmptyMap)]
    /\ UNCHANGED <<etcdPodMap, seqVars>>

\* c.etcdPodMap = &etcdmap, with no second look at the field
RaceWrite(t) ==
    /\ th[t].pc = "write"
    /\ etcdPodMap' = CacheWrite(etcdPodMap, th[t].etcdmap)
    /\ th' = [th EXCEPT ![t].pc = "lookup", ![t].wrote = TRUE]
    /\ UNCHANGED seqVars

\* podName, exists := (*c.etcdPodMap)[nodeName], on the field as it is now
RaceLookup(t) ==
    /\ th[t].pc = "lookup"
    /\ th' = [th EXCEPT ![t].pc = "done",
                        ![t].podName = IF th[t].nodeName \in DOMAIN etcdPodMap
                                       THEN etcdPodMap[th[t].nodeName] ELSE "",
                        ![t].err = IF th[t].nodeName \in DOMAIN etcdPodMap
                                   THEN "nil" ELSE "notfound"]
    /\ UNCHANGED <<etcdPodMap, seqVars>>

RaceNext ==
    \E t \in Builders :
        \/ RaceCall(t)
        \/ RaceCheck(t)
        \/ RaceList(t)
        \/ RaceWrite(t)
        \/ RaceLookup(t)

SpecRace == Init /\ [][RaceNext]_vars

\* ------------------------------------------------------------------ claims
Done == pc = "done"

LeaderDone == Done /\ op = "forLeader"

FfanDone == Done /\ op = "forFirstAvailableNode"

Succeeded == result.err = NoErr

\* the handles of the running call that are open
OpenHandles == {h \in 1..Len(dials) : dials[h].open}

\* the temporary handles of the running call
TempHandles == {h \in 1..Len(dials) : dials[h].ok /\ dials[h].for = "temp"}

\* the dials getLeaderClient made to a leader's node
LeaderDials == {h \in 1..Len(dials) : dials[h].for = "leader"}

InconsistentNoMember == Err("nomember", "", <<>>)

InconsistentNoNode(n) == Err("noleadernode", n, <<>>)

\* C1: a handle returned by forLeader is the one created by the last dial of
\* the call, a dial made for the leader to the cached proxy pod of node L,
\* where L is the node of a member carrying the leader ID that the probed
\* candidate reported and L is one of the candidates; it is not the temporary
\* handle of the probe.
C1_LeaderHandle ==
    (LeaderDone /\ Succeeded) =>
        LET h == result.client
            L == NodeNameFromMember(gl.leaderMember)
        IN  /\ h = Len(dials)
            /\ h >= 1
            /\ dials[h].ok
            /\ dials[h].open
            /\ dials[h].for = "leader"
            /\ h # gl.deferred
            /\ h \notin TempHandles
            /\ gl.queried
            /\ gl.leaderMember # NoMember
            /\ gl.leaderMember.ID = gl.leaderID
            /\ L \in gl.reported
            /\ L \in NodeSet(nodeNames)
            /\ dials[h].node = L
            /\ L \in DOMAIN etcdPodMap
            /\ dials[h].pod = etcdPodMap[L]

\* forLeader returned a handle to a leader that is the very candidate it probed
C1_Witness ==
    /\ LeaderDone
    /\ Succeeded
    /\ NodeNameFromMember(gl.leaderMember) = gl.nodeName
    /\ Len(dials) = 2
    /\ dials[1].pod = dials[2].pod

\* C2: a temporary handle is closed at most once at any time, and when
\* getLeaderClient has returned (forLeader is back in its loop, or has
\* returned) every temporary handle opened so far is closed exactly once.
C2_TempClosedOnce ==
    /\ \A h \in 1..Len(dials) : dials[h].closes <= 1
    /\ (op = "forLeader" /\ pc \in {"fl_loop", "done"}) =>
           \A h \in TempHandles : ~dials[h].open /\ dials[h].closes = 1

\* forLeader returned the failure of the dial to the leader's node, after a
\* probe that had opened a temporary handle
C2_Witness ==
    /\ LeaderDone
    /\ ~Succeeded
    /\ TempHandles # {}
    /\ \E h \in LeaderDials : ~dials[h].ok

\* the probed candidate answered the query, and no member has the leader ID
NoMemberAnswer == gl.queried /\ gl.reported = {}

\* C3: when the membership query succeeded and no member carries the
\* reported leader ID, getLeaderClient has made no dial beyond the probe, and
\* when it returns forLeader returns the inconsistency error itself, with no
\* handle, leaving its loop where it was.
C3_NoMemberFatal ==
    [][(pc = "gl_defer" /\ NoMemberAnswer) =>
          /\ dials[Len(dials)].for = "temp"
          /\ Len(dials) = gl.deferred
          /\ pc' = "done"
          /\ result' = [client |-> 0, err |-> InconsistentNoMember]
          /\ fl' = fl
          /\ Len(dials') = Len(dials)]_vars

\* forLeader returned the inconsistency error of the second candidate
C3_Witness ==
    /\ LeaderDone
    /\ NoMemberAnswer
    /\ result.err = InconsistentNoMember
    /\ fl.i = 2
    /\ Len(nodeNames) = 3

\* the leader's member maps to a node that is no candidate
ForeignLeaderAnswer ==
    /\ gl.queried
    /\ gl.leaderMember # NoMember
    /\ NodeNameFromMember(gl.leaderMember) \notin NodeSet(nodeNames)

\* C4: when the leader's member maps to a node that is not in the candidate
\* list, the probe is the only client creation of that getLeaderClient call,
\* and when it returns forLeader returns the inconsistency error, with no
\* handle and no further candidate probed.
C4_ForeignLeaderFatal ==
    [][(pc # "idle" /\ ForeignLeaderAnswer) =>
          /\ pc \in {"gl_defer", "done"}
          /\ dials[Len(dials)].for = "temp"
          /\ Len(dials) = gl.deferred
          /\ pc = "gl_defer" =>
                /\ pc' = "done"
                /\ result' = [client |-> 0,
                              err |-> InconsistentNoNode(
                                          NodeNameFromMember(gl.leaderMember))]
                /\ fl' = fl
                /\ Len(dials') = Len(dials)]_vars

\* forLeader returned the inconsistency error for a leader outside the list
C4_Witness ==
    /\ LeaderDone
    /\ ForeignLeaderAnswer
    /\ result.err = InconsistentNoNode(NodeNameFromMember(gl.leaderMember))
    /\ Len(nodeNames) = 2
    /\ fl.i = 2

\* candidates A, B, C; the listings work; A has no proxy pod; B connected and
\* its membership query failed; C connected at every dial and reported itself
\* leader
C5_Scenario ==
    /\ LeaderDone
    /\ nodeNames = <<"A", "B", "C">>
    /\ net.listErrs = 0
    /\ etcdPodMap # NoMap
    /\ "A" \notin DOMAIN etcdPodMap
    /\ \E h \in TempHandles : dials[h].node = "B"
    /\ Len(fl.errs) >= 2
    /\ Is(fl.errs[2], Err("members", "B", <<>>))
    /\ \A h \in 1..Len(dials) : dials[h].node = "C" => dials[h].ok
    /\ gl.nodeName = "C"
    /\ gl.queried
    /\ gl.reported = {"C"}

\* forFirstAvailableNode is running for getLeaderClient's probe
Probing == ff.ret = "temp" /\ pc \in {"ff_list", "ff_loop", "ff_create"}

\* C5: in forLeader a probe that ends without a temporary client, and a
\* membership query that fails, send forLeader to its next loop turn with the
\* error recorded; a loop turn with a candidate left probes that candidate.
\* For candidates A, B, C with a working pod listing, no pod for A, a failed
\* query on B, and C connecting and reporting itself leader, forLeader
\* returns a handle to C's pod and no error.
C5_RetryableGoesOn ==
    /\ [][/\ (Probing /\ ~Probing' /\ pc' # "gl_members") =>
                /\ pc' = "fl_loop"
                /\ fl'.i = fl.i + 1
                /\ Len(fl'.errs) = Len(fl.errs) + 1
                /\ result' = result
          /\ (pc = "gl_defer" /\ ~gl.queried) =>
                /\ pc' = "fl_loop"
                /\ fl'.i = fl.i + 1
                /\ Len(fl'.errs) = Len(fl.errs) + 1
                /\ result' = result
          /\ (pc = "fl_loop" /\ fl.i <= Len(nodeNames)) =>
                /\ pc' = "ff_list"
                /\ ff'.ret = "temp"
                /\ ff'.names = <<nodeNames[fl.i]>>
                /\ gl'.nodeName = nodeNames[fl.i]]_vars
    /\ [](C5_Scenario => (Succeeded /\ dials[result.client].pod = "pod-C"
                                    /\ dials[result.client].node = "C"))

\* forLeader returned from the scenario of C5 with a handle
C5_Witness == C5_Scenario /\ Succeeded /\ result.client = 3

\* the error e is one forFirstAvailableNode records for candidate n
FfanCause(e, n) ==
    \/ e = Err("notfound", n, <<>>)
    \/ e = Err("nopods", "", <<>>)
    \/ e.kind = "wrap" /\ e.causes \in {<<Err("list", "", <<>>)>>, <<Err("clientset", "", <<>>)>>}
    \/ /\ etcdPodMap # NoMap
       /\ n \in DOMAIN etcdPodMap
       /\ e = Err("dial", etcdPodMap[n], <<>>)

\* the place of node n in the candidate list
Idx(n) == CHOOSE k \in 1..Len(nodeNames) : nodeNames[k] = n

\* C6: a handle returned by forFirstAvailableNode is the one created by the
\* last client creation of the call, made to the cached pod of the candidate
\* the loop stands at; every client creation before it failed, the creations
\* follow the list order, and every candidate before that one has its
\* recorded failure.
C6_FirstSuccess ==
    (FfanDone /\ Succeeded) =>
        LET h == result.client
            j == ff.j
        IN  /\ h = Len(dials)
            /\ h >= 1
            /\ j \in 1..Len(nodeNames)
            /\ dials[h].ok
            /\ dials[h].node = nodeNames[j]
            /\ dials[h].pod = etcdPodMap[nodeNames[j]]
            /\ \A k \in 1..(h - 1) : ~dials[k].ok
            /\ \A a, b \in 1..h : a < b => Idx(dials[a].node) < Idx(dials[b].node)
            /\ Len(ff.errs) = j - 1
            /\ \A k \in 1..(j - 1) : FfanCause(ff.errs[k], nodeNames[k])

\* forFirstAvailableNode returned the third candidate's handle after a failed
\* client creation and a candidate without a pod
C6_Witness ==
    /\ FfanDone
    /\ Succeeded
    /\ ff.j = 3
    /\ Len(dials) = 2
    /\ \E k \in 1..2 : ff.errs[k].kind = "notfound"

\* C7: a resolution call with an empty candidate list has returned an
\* invalid-argument error and no handle, without a pod listing, a client
\* creation or a membership query, and with the pod map as it was.
C7_EmptyList ==
    (op # "none" /\ nodeNames = <<>>) =>
        /\ pc = "done"
        /\ result = [client |-> 0, err |-> Err("invalid", "", <<>>)]
        /\ dials = <<>>
        /\ net.lists = 0
        /\ net.listErrs = 0
        /\ net.queries = 0
        /\ etcdPodMap = net.map0

\* forLeader was called with an empty list on a generator whose map is built
C7_Witness ==
    /\ LeaderDone
    /\ nodeNames = <<>>
    /\ etcdPodMap # NoMap
    /\ result.err.kind = "invalid"

\* the error e, or one it wraps or aggregates, is of one of the kinds
RECURSIVE Carries(_, _)
Carries(e, kinds) ==
    \/ e.kind \in kinds
    \/ \E k \in 1..Len(e.causes) : Carries(e.causes[k], kinds)

\* C8: a call with a non-empty candidate list whose pod listings all came
\* back empty has failed with an error about the missing proxy pods (the
\* inventory error, or its per-node form), and has made no client creation.
C8_EmptyInventoryFails ==
    (Done /\ nodeNames # <<>> /\ net.lists > 0 /\ net.empties = net.lists) =>
        /\ ~Succeeded
        /\ Carries(result.err, {"nopods", "notfound"})
        /\ dials = <<>>

FfanAggMsg == "could not establish a connection to any etcd node"

LeaderAggMsg == "could not establish a connection to the etcd leader"

\* e is the aggregate a resolution call returns under message msg
IsAggregate(e, msg) ==
    /\ e.kind = "wrap"
    /\ e.what = msg
    /\ Len(e.causes) = 1
    /\ e.causes[1].kind = "agg"

\* the error e is one forLeader records for candidate n
LeaderCause(e, n) ==
    /\ e.kind = "agg"
    /\ Len(e.causes) = 2
    /\ e.causes[2] = errEtcdNodeConnection
    /\ \/ e.causes[1] = Err("members", n, <<>>)
       \/ e.causes[1].kind = "wrap" /\ e.causes[1].what # FfanAggMsg
       \/ /\ IsAggregate(e.causes[1], FfanAggMsg)
          /\ Len(e.causes[1].causes[1].causes) = 1
          /\ FfanCause(e.causes[1].causes[1].causes[1], n)

\* C9: a resolution call whose loop ran out of candidates returns the
\* aggregate, and an aggregate it returns holds one cause for each candidate
\* of the list, in the order of the list.
C9_AggregateAfterAll ==
    /\ (FfanDone /\ ff.j > Len(ff.names) /\ nodeNames # <<>>) =>
           IsAggregate(result.err, FfanAggMsg)
    /\ (FfanDone /\ IsAggregate(result.err, FfanAggMsg)) =>
           LET causes == result.err.causes[1].causes
           IN  /\ result.client = 0
               /\ Len(causes) = Len(nodeNames)
               /\ \A k \in 1..Len(causes) : FfanCause(causes[k], nodeNames[k])
    /\ (LeaderDone /\ fl.i > Len(nodeNames) /\ nodeNames # <<>>) =>
           IsAggregate(result.err, LeaderAggMsg)
    /\ (LeaderDone /\ IsAggregate(result.err, LeaderAggMsg)) =>
           LET causes == result.err.causes[1].causes
           IN  /\ result.client = 0
               /\ Len(causes) = Len(nodeNames)
               /\ \A k \in 1..Len(causes) : LeaderCause(causes[k], nodeNames[k])

\* forLeader returned the aggregate of three candidates that failed in
\* different ways
C9_Witness ==
    /\ LeaderDone
    /\ IsAggregate(result.err, LeaderAggMsg)
    /\ Len(nodeNames) = 3
    /\ result.err.causes[1].causes[1].causes[1].kind = "members"
    /\ IsAggregate(result.err.causes[1].causes[3].causes[1], FfanAggMsg)

\* C10: when a resolution call has returned, the handles it opened that are
\* still open are the returned handle alone after a success and none after a
\* failure.
C10_OpenAtReturn ==
    Done =>
        /\ Succeeded => (result.client >= 1 /\ OpenHandles = {result.client})
        /\ ~Succeeded => OpenHandles = {}
        /\ Cardinality(OpenHandles) = IF Succeeded THEN 1 ELSE 0

\* forLeader failed after it had opened two temporary handles
C10_Witness ==
    /\ LeaderDone
    /\ ~Succeeded
    /\ Cardinality(TempHandles) = 2
    /\ LeaderDials # {}

\* C11: a resolution call that has returned gave either a handle and no
\* error or an error and no handle, and a loop that has run out of
\* candidates has recorded at least one cause for its aggregate.
C11_HandleXorError ==
    /\ Done => \/ result.client >= 1 /\ result.err = NoErr
               \/ result.client = 0 /\ result.err # NoErr
    /\ (pc = "ff_loop" /\ ff.j > Len(ff.names)) => ff.errs # <<>>
    /\ (pc = "fl_loop" /\ fl.i > Len(nodeNames)) => fl.errs # <<>>

\* forFirstAvailableNode returned the aggregate of the one cause its
\* one-candidate loop recorded
C11_Witness ==
    /\ FfanDone
    /\ Len(nodeNames) = 1
    /\ result.client = 0
    /\ IsAggregate(result.err, FfanAggMsg)
    /\ Len(result.err.causes[1].causes) = 1

InGetLeader ==
    /\ op = "forLeader"
    /\ \/ pc \in {"gl_members", "gl_defer"}
       \/ pc \in {"ff_list", "ff_loop", "ff_create"} /\ ff.ret = "leader"

\* the temporary handles that are open
OpenTemps == {h \in TempHandles : dials[h].open}

\* C13 as stated: the temporary handle is closed as soon as the membership
\* query is over, before the dial to the leader's node starts, so a temporary
\* handle and a leader handle are never open together.
C13_ClosedBeforeLeaderDial ==
    /\ (pc \in {"ff_list", "ff_loop", "ff_create"} /\ ff.ret = "leader") =>
           OpenTemps = {}
    /\ \A h \in TempHandles, l \in LeaderDials : ~(dials[h].open /\ dials[l].open)

\* C13: the temporary handle stays open from its creation until
\* getLeaderClient returns, through the dial to the leader's node, and is
\* closed at that return; while getLeaderClient runs it is the one temporary
\* handle open, and outside getLeaderClient none is.
C13_ClosedAtReturn ==
    /\ InGetLeader =>
           /\ gl.deferred \in 1..Len(dials)
           /\ dials[gl.deferred].for = "temp"
           /\ dials[gl.deferred].closes = 0
           /\ OpenTemps = {gl.deferred}
    /\ ~InGetLeader => OpenTemps = {}
    /\ Cardinality({l \in LeaderDials : dials[l].open}) <= 1

\* getLeaderClient is about to return the leader handle, and the temporary
\* handle is still open beside it
C13_Witness ==
    /\ pc = "gl_defer"
    /\ gl.retClient >= 1
    /\ gl.retClient # gl.deferred
    /\ dials[gl.retClient].open
    /\ dials[gl.deferred].open

\* a pod listing of the running call failed or came back empty
ListingBad == net.listErrs + net.empties > 0

\* C14: once a pod listing of a running resolution call has failed or come
\* back empty, the call issues no further listing, tries no further
\* candidate (no client creation, no membership query) and does not end in a
\* success.
C14_ListingFatal ==
    [][(pc \notin {"idle", "done"} /\ ListingBad) =>
          /\ net'.lists = net.lists
          /\ net'.queries = net.queries
          /\ Len(dials') = Len(dials)
          /\ pc' = "done" => (result'.client = 0 /\ result'.err # NoErr)]_vars

\* C15: once the pod map is built, no step of any resolution call issues a
\* pod listing.
C15_ListedOnce ==
    [][(etcdPodMap # NoMap /\ pc # "done") => net'.lists = net.lists]_vars

\* C16: a step taken while the pod map is built leaves the map as it is, and
\* the step that builds the map is a pod listing whose non-empty result the
\* map is made from.
C16_MapImmutable ==
    [][/\ etcdPodMap # NoMap => etcdPodMap' = etcdPodMap
       /\ (etcdPodMap = NoMap /\ etcdPodMap' # NoMap) =>
              /\ net'.lists = net.lists + 1
              /\ \E items \in PodLists :
                    items # <<>> /\ etcdPodMap' = PodsToMap(items, EmptyMap)]_vars

\* a call that started with the map built got an empty listing and a
\* non-empty one, and has returned with the map it started with
C16_Witness ==
    /\ Done
    /\ etcdPodMap # NoMap
    /\ net.map0 = etcdPodMap
    /\ net.empties > 0
    /\ net.lists > net.empties + net.listErrs

\* C17: a turn of forFirstAvailableNode's loop that ends with a built pod
\* map holding no pod for the candidate records the miss for that candidate
\* and moves to the next one, with no client creation and no return; and
\* every client creation of a call was for a candidate the map has a pod for.
C17_PodMissRecorded ==
    /\ [][(/\ pc = "ff_loop"
           /\ ff.j <= Len(ff.names)
           /\ etcdPodMap' # NoMap
           /\ ff.names[ff.j] \notin DOMAIN etcdPodMap') =>
              /\ pc' = "ff_loop"
              /\ ff'.j = ff.j + 1
              /\ ff'.errs = Append(ff.errs, Err("notfound", ff.names[ff.j], <<>>))
              /\ dials' = dials
              /\ result' = result]_vars
    /\ [](\A h \in 1..Len(dials) :
              /\ etcdPodMap # NoMap
              /\ dials[h].node \in DOMAIN etcdPodMap
              /\ dials[h].pod = etcdPodMap[dials[h].node])

\* forFirstAvailableNode returned the handle of its second candidate after
\* the first one had no pod in the map
C17_Witness ==
    /\ FfanDone
    /\ Succeeded
    /\ Len(ff.errs) = 1
    /\ ff.errs[1] = Err("notfound", nodeNames[1], <<>>)
    /\ result.client = 1
    /\ dials[1].node = nodeNames[2]

\* the client creations of the running call made for kind k
DialsFor(k) == {h \in 1..Len(dials) : dials[h].for = k}

\* steps forFirstAvailableNode has left at most, over n names from index j on
FfLeft(j, n) == 2 * (n + 1 - j) + 1

\* steps the running forFirstAvailableNode has left at most
FfRank ==
    CASE pc = "ff_list" -> 1 + FfLeft(1, Len(ff.names))
      [] pc = "ff_loop" -> FfLeft(ff.j, Len(ff.names))
      [] pc = "ff_create" -> 1 + FfLeft(ff.j + 1, Len(ff.names))
      [] OTHER -> 0

\* steps a forFirstAvailableNode call over one name takes at most
OneFf == 1 + FfLeft(1, 1)

\* steps one turn of forLeader's loop takes at most: its start, the probe's
\* forFirstAvailableNode, the query, the leader's forFirstAvailableNode, the
\* return of getLeaderClient
TurnSteps == 1 + OneFf + 1 + OneFf + 1

\* steps forLeader has left at most once the running turn is over
FlLeft == TurnSteps * (Len(nodeNames) - fl.i) + 1

\* steps the running call has left at most
Rank ==
    CASE pc \in {"idle", "done"} -> 0
      [] op = "forFirstAvailableNode" -> FfRank
      [] pc = "fl_loop" -> TurnSteps + FlLeft
      [] pc = "gl_members" -> 1 + OneFf + 1 + FlLeft
      [] pc = "gl_defer" -> 1 + FlLeft
      [] ff.ret = "temp" -> FfRank + 1 + OneFf + 1 + FlLeft
      [] OTHER -> FfRank + 1 + FlLeft

\* C18: a running resolution call has a bounded number of steps left, and
\* every step it takes makes that number smaller; its loop index never
\* passes the end of the list by more than one; forFirstAvailableNode has
\* made at most one client creation for each candidate it has passed, and
\* forLeader at most one probe for each candidate it has passed and at most
\* one dial to a leader's node.
C18_SinglePass ==
    /\ [][pc \notin {"idle", "done"} => (Rank' < Rank /\ Rank' >= 0)]_vars
    /\ [](op = "forFirstAvailableNode" =>
              /\ ff.j <= Len(nodeNames) + 1
              /\ Len(dials) <= Len(nodeNames)
              /\ Len(dials) <= ff.j
              /\ \A a, b \in 1..Len(dials) :
                    a # b => dials[a].node # dials[b].node)
    /\ [](op = "forLeader" =>
              /\ fl.i <= Len(nodeNames) + 1
              /\ Cardinality(DialsFor("temp")) <= Len(nodeNames)
              /\ Cardinality(DialsFor("temp")) <= fl.i
              /\ \A a, b \in DialsFor("temp") :
                    a # b => dials[a].node # dials[b].node
              /\ Cardinality(DialsFor("leader")) <= 1
              /\ net.queries <= Len(nodeNames))

\* forLeader returned after it had made a client creation for each of its
\* two candidates, queried both and dialled a leader's node
C18_Witness ==
    /\ LeaderDone
    /\ Len(nodeNames) = 2
    /\ fl.i = 2
    /\ Cardinality(DialsFor("temp")) = 2
    /\ Cardinality(DialsFor("leader")) = 1
    /\ net.queries = 2

\* the errors of the client creations of the running call that failed
DialErrs == {Err("dial", dials[h].pod, <<>>) : h \in {x \in 1..Len(dials) : ~dials[x].ok}}

\* the error e is carried by the error the call returned
Carried(e) == Is(result.err, e)

\* C19 as stated: a resolution call that returned an error returned one that
\* carries every failure of the call: each failure forLeader recorded for a
\* candidate, each failure forFirstAvailableNode recorded, and each failed
\* client creation.
C19_AllCarried ==
    (Done /\ ~Succeeded) =>
        /\ \A k \in 1..Len(fl.errs) : Carried(fl.errs[k])
        /\ op = "forFirstAvailableNode" => \A k \in 1..Len(ff.errs) : Carried(ff.errs[k])
        /\ \A e \in DialErrs : Carried(e)

\* forLeader returned an error that is not its exhaustion aggregate
FatalReturn ==
    /\ LeaderDone
    /\ ~Succeeded
    /\ nodeNames # <<>>
    /\ ~IsAggregate(result.err, LeaderAggMsg)

\* C19: a resolution call that returned an error returned one that carries
\* the failure that ended the call; the exhaustion aggregates carry every
\* failure of the call, while a fatal error of forLeader is the error of its
\* last getLeaderClient alone and carries none of the failures recorded for
\* the candidates probed before.
C19_EndingErrorCarried ==
    /\ (FfanDone /\ ~Succeeded) =>
           /\ \A k \in 1..Len(ff.errs) : Carried(ff.errs[k])
           /\ \A e \in DialErrs : Carried(e)
    /\ (LeaderDone /\ IsAggregate(result.err, LeaderAggMsg)) =>
           /\ \A k \in 1..Len(fl.errs) : Carried(fl.errs[k])
           /\ \A e \in DialErrs : Carried(e)
           /\ gl.retErr # NoErr => Carried(gl.retErr)
    /\ FatalReturn =>
           /\ result.err = gl.retErr
           /\ ~Retryable(result.err)
           /\ \A k \in 1..Len(ff.errs) : Carried(ff.errs[k])
           /\ \A k \in 1..Len(fl.errs) : ~Carried(fl.errs[k])
           /\ Len(fl.errs) = fl.i - 1

\* forLeader returned the inconsistency the second candidate's answer showed,
\* and the failure recorded for the first candidate is not in it
C19_Witness ==
    /\ FatalReturn
    /\ result.err.kind \in {"nomember", "noleadernode"}
    /\ Len(fl.errs) = 1
    /\ ~Carried(fl.errs[1])

\* the callers between the nil test and the assignment of the pod map
InConstruction == {t \in Builders : th[t].pc \in {"list", "write"}}

\* C20: nothing stands between a caller's nil test and its assignment of the
\* pod map: a caller that has filled its local map assigns it whatever the
\* field holds by then, so the field holds the map of the last caller that
\* assigned it, and any number of callers can be in the construction section
\* and assign the field.
C20_RacingBuilders ==
    /\ [][\A t \in Builders :
             (th[t].pc = "write" /\ th'[t].pc # "write") =>
                 (etcdPodMap' = th[t].etcdmap /\ th'[t].wrote)]_vars
    /\ [](\A t \in Builders : th[t].wrote => etcdPodMap # NoMap)
    /\ [](etcdPodMap # NoMap =>
              \E t \in Builders : th[t].wrote /\ th[t].etcdmap = etcdPodMap)

\* two callers saw the pod map nil, listed different pods and are both about
\* to assign the map
C20_Witness ==
    /\ InConstruction = {1, 2}
    /\ th[1].pc = "write"
    /\ th[2].pc = "write"
    /\ th[1].etcdmap # th[2].etcdmap
    /\ etcdPodMap = NoMap

\* getLeaderClient is about to return the error of its dial to the leader's
\* node: the second forFirstAvailableNode call ran and gave an error
LeaderDialFailed == pc = "gl_defer" /\ ff.ret = "leader" /\ gl.retErr # NoErr

\* C21: when the dial to the leader's node has failed, the error is not a
\* retryable one, and the return of getLeaderClient ends forLeader with that
\* error and no handle: the temporary handle is closed, no further client
\* creation or query is made, and nothing is added to the recorded errors.
C21_LeaderDialFatal ==
    /\ [](LeaderDialFailed =>
              /\ ~Retryable(gl.retErr)
              /\ gl.retClient = 0
              /\ InCluster(NodeSet(nodeNames), ff.names[1])
              /\ dials[gl.deferred].open)
    /\ [][LeaderDialFailed =>
              /\ pc' = "done"
              /\ result' = [client |-> 0, err |-> gl.retErr]
              /\ fl' = fl
              /\ Len(dials') = Len(dials)
              /\ net' = net
              /\ ~dials'[gl.deferred].open
              /\ dials'[gl.deferred].closes = 1
              /\ \A h \in 1..Len(dials') : ~dials'[h].open]_vars

\* forLeader returned the failed dial to the leader's node, which is the
\* first candidate, whose own probe had failed and been recorded, while the
\* second candidate was never the target of a leader dial
C21_Witness ==
    /\ LeaderDone
    /\ ~Succeeded
    /\ ff.ret = "leader"
    /\ fl.i = 2
    /\ Len(fl.errs) = 1
    /\ Len(nodeNames) = 3
    /\ ff.names = <<nodeNames[1]>>
    /\ \E l \in LeaderDials : ~dials[l].ok /\ dials[l].node = nodeNames[1]

\* C22: the pod map is nil or a map with at least one node; a turn of the
\* loop that finds the map nil issues the listing when a clientset can be
\* made, and when that listing fails or returns no pods the map stays nil.
C22_NilOrNonEmpty ==
    /\ [](\/ etcdPodMap = NoMap
          \/ DOMAIN etcdPodMap # {} /\ DOMAIN etcdPodMap \subseteq Nodes)
    /\ [][(pc = "ff_loop" /\ ff.j <= Len(ff.names) /\ etcdPodMap = NoMap) =>
              /\ restConfigOK => net'.lists = net.lists + 1
              /\ (net'.listErrs > net.listErrs \/ net'.empties > net.empties) =>
                     (etcdPodMap' = NoMap /\ pc' = "ff_loop")]_vars

\* forFirstAvailableNode got no pods from the listing made for its first
\* candidate, which left the map nil, and the listing made again for its
\* second candidate built the map
C22_Witness ==
    /\ FfanDone
    /\ net.map0 = NoMap
    /\ Len(ff.errs) >= 1
    /\ ff.errs[1] = Err("nopods", "", <<>>)
    /\ etcdPodMap # NoMap
    /\ net.empties >= 1
    /\ net.lists >= 3

====
